---- MODULE Spec2Model ----
(***************************************************************************)
(* A model of the abb-bot scraping scripts:                                *)
(*   - the scraper factory and the concrete scrapers (scrapers/non_async), *)
(*   - the browser scrape call with its scroll-to-bottom loop,             *)
(*   - the scripts that store what was scraped (scrape_abante_cloudinary,  *)
(*     scrape_abante2, fill_missing_data_abante),                          *)
(*   - the Article value object the scripts and the tests construct.       *)
(* Each part has its own specification over the part's variables; the      *)
(* variables of the other parts keep their initial values.                 *)
(***************************************************************************)
EXTENDS Integers, Sequences, FiniteSets, TLC

VARIABLES
    \* ---- ScraperFactory and its caller
    factory_scraper,      \* ScraperFactory.scraper (self.scraper)
    constructor_arg,      \* the scraper_type the factory was constructed with
    firefox_esr_exists,   \* os.path.exists("/usr/bin/firefox-esr")
    calls,                \* the arguments of the get_scraper calls so far
    results,              \* their outcomes, one record per call
    \* ---- one scraper object and the scrape calls made on it
    scraper_class,        \* the class of the scraper object
    scroll_down,          \* self.scroll_down
    self_driver,          \* SeleniumFirefoxScraper.driver: "None" or "active"
    running,              \* browser drivers created and not yet quit
    scrapes,              \* scrape calls begun so far
    pc,                   \* position inside scrape
    raising,              \* an exception is propagating through finally
    outcome,              \* how the last call ended: "none", "returned", "raised"
    ret,                  \* the value the last call returned (0: none)
    elapsed,              \* time.time() minus the time end_time was computed at
    page_height,          \* document.body.scrollHeight of the loaded page
    last_height,          \* local last_height
    new_height,           \* local new_height
    loads,                \* driver.get calls completed in this call
    waits,                \* WebDriverWait.until calls completed in this call
    scrolls,              \* window.scrollTo scripts run in this call
    reads,                \* driver.page_source reads in this call
    quits,                \* driver.quit calls in this call
    source,               \* the page source read (0: none)
    \* ---- Article(...) constructions
    article_kwargs,       \* the keyword arguments of the last construction
    article_obj,          \* the Article built, or NoArticle
    article_error,        \* the last construction raised ValidationError
    built,                \* Articles built so far (uuid4 draws)
    \* ---- one run of a script against the articles table
    script,               \* "cloudinary", "abante2" or "fill"
    spc,                  \* position inside the script
    table,                \* the rows of the articles table
    elements,             \* the article elements of the scraped listing
    articles,             \* the Article objects process_article_html built
    idx,                  \* position of the running for loop (1-based)
    target_id,            \* existing_article_id / new_article_id
    inserted_data,        \* what insert_article returned
    cloudinary_url,       \* what the image upload returned
    missing,              \* articles_to_update
    scraped_info,         \* what scrape_missing_info returned
    scrape_calls,         \* scraper.scrape calls begun
    update_calls,         \* update_article_in_supabase calls begun
    last_op               \* the last database or CDN operation

factoryVars == <<factory_scraper, constructor_arg, firefox_esr_exists,
                 calls, results>>

objVars == <<scraper_class, scroll_down, self_driver, running, scrapes>>

loopVars == <<elapsed, page_height, last_height, new_height>>

stepVars == <<loads, waits, scrolls, reads, quits, source>>

ctlVars == <<pc, raising, outcome, ret>>

scrapeVars == <<objVars, loopVars, stepVars, ctlVars>>

articleVars == <<article_kwargs, article_obj, article_error, built>>

scriptVars == <<script, spc, table, elements, articles, idx, target_id,
                inserted_data, cloudinary_url, missing, scraped_info,
                scrape_calls, update_calls, last_op>>

notScrapeVars == <<factoryVars, articleVars, scriptVars>>

vars == <<factoryVars, scrapeVars, articleVars, scriptVars>>

(***************************************************************************)
(* Bounds of the model.                                                    *)
(***************************************************************************)
MaxCalls == 3

MaxScrapes == 2

\* Page heights are capped: a page grows by at most one unit per scroll.
MaxHeight == 12

\* An iteration of the scroll loop lasts scroll_pause plus at most MaxJitter.
MaxJitter == 1

\* Article constructions in one run of the Article specification.
MaxBuilt == 2

\* Article elements in one scraped listing.
MaxArticles == 2

(***************************************************************************)
(* Scrapers (enum), the concrete classes and ScraperFactory.               *)
(***************************************************************************)
Scrapers == {"REQUESTS", "SCRAPY", "SELENIUM", "FIREFOX"}

\* A value that is not a member of Scrapers: the constructor and get_scraper
\* store whatever they are given.
NotAMember == "NOT_A_MEMBER"

\* scraper_type = None
NoneArg == "None"

ScraperClasses ==
    {"RequestsScraper", "ScrapyScraper", "SeleniumScraper", "SeleniumFirefoxScraper"}

\* Every concrete class derives from the abstract class Scraper.
IsScraper(obj) == obj \in ScraperClasses

Returned(key, cls) == [key |-> key, kind |-> "returned", value |-> cls]

Raised(key, exc) == [key |-> key, kind |-> "raised", value |-> exc]

\* RequestsScraper.__init__ only sets the headers.
RequestsScraper_init(key) == Returned(key, "RequestsScraper")

\* ScrapyScraper.__init__ raises NotImplementedError.
ScrapyScraper_init(key) == Raised(key, "NotImplementedError")

\* SeleniumScraper.__init__ only sets wait, scroll_down, scroll_down_until.
SeleniumScraper_init(key) == Returned(key, "SeleniumScraper")

\* SeleniumFirefoxScraper.__init__: FileNotFoundError when the Firefox ESR
\* binary is absent; GeckoDriverManager().install() may itself fail.
SeleniumFirefoxScraper_init(key, exists, install_ok) ==
    IF ~exists THEN Raised(key, "FileNotFoundError")
    ELSE IF ~install_ok THEN Raised(key, "DriverInstallError")
    ELSE Returned(key, "SeleniumFirefoxScraper")

\* The match statement of get_scraper on the stored value.
MatchScraper_unvalidated(key, exists, install_ok) ==
    CASE key = "SCRAPY" -> ScrapyScraper_init(key)
      [] key = "SELENIUM" -> SeleniumScraper_init(key)
      [] key = "FIREFOX" -> SeleniumFirefoxScraper_init(key, exists, install_ok)
      [] OTHER -> RequestsScraper_init(key)

MatchScraper(key, exists, install_ok) ==
    CASE key = "REQUESTS" -> RequestsScraper_init(key)
      [] key = "SCRAPY" -> ScrapyScraper_init(key)
      [] key = "SELENIUM" -> SeleniumScraper_init(key)
      [] key = "FIREFOX" -> SeleniumFirefoxScraper_init(key, exists, install_ok)
      [] OTHER -> Raised(key, "ValueError")

\* if scraper_type is not None: self.scraper = scraper_type
StoredAfter(stored, arg) == IF arg # NoneArg THEN arg ELSE stored

\* ScraperFactory(): the argument left out
DefaultArg == "default"

\* scraper_type: Scrapers = Scrapers.REQUESTS; self.scraper = scraper_type
ScraperFactory_init(arg) == IF arg = DefaultArg THEN "REQUESTS" ELSE arg

InitFactory ==
    /\ constructor_arg \in {DefaultArg} \cup Scrapers \cup {NotAMember}
    /\ factory_scraper = ScraperFactory_init(constructor_arg)
    /\ firefox_esr_exists \in BOOLEAN
    /\ calls = <<>>
    /\ results = <<>>

\* ScraperFactory.get_scraper(scraper_type)
get_scraper(arg, install_ok) ==
    /\ Len(calls) < MaxCalls
    /\ factory_scraper' = StoredAfter(factory_scraper, arg)
    /\ calls' = Append(calls, arg)
    /\ results' = Append(results,
                         MatchScraper(StoredAfter(factory_scraper, arg),
                                      firefox_esr_exists, install_ok))
    /\ UNCHANGED <<constructor_arg, firefox_esr_exists>>

NextFactory ==
    \/ /\ \E arg \in Scrapers \cup {NotAMember, NoneArg}, install_ok \in BOOLEAN :
             get_scraper(arg, install_ok)
       /\ UNCHANGED <<scrapeVars, articleVars, scriptVars>>

(***************************************************************************)
(* The scrape calls on one scraper object.                                 *)
(***************************************************************************)
\* scroll_pause = 1
ScrollPause == 1

\* self.scroll_down_until = 10.0
ScrollDownUntil == 10

\* document.body.scrollHeight of a page that has just been loaded
LoadedHeight == 1

BrowserClasses == {"SeleniumScraper", "SeleniumFirefoxScraper"}

InitScrape ==
    /\ scraper_class \in {"RequestsScraper"} \cup BrowserClasses
    /\ scroll_down = TRUE
    /\ self_driver = "None"
    /\ running = 0
    /\ scrapes = 0
    /\ pc = "idle"
    /\ raising = FALSE
    /\ outcome = "none"
    /\ ret = 0
    /\ elapsed = 0
    /\ page_height = 0
    /\ last_height = 0
    /\ new_height = 0
    /\ loads = 0
    /\ waits = 0
    /\ scrolls = 0
    /\ reads = 0
    /\ quits = 0
    /\ source = 0

\* An exception raised inside the try block: control passes to finally.
RaiseInTry ==
    /\ pc' = "finally"
    /\ raising' = TRUE
    /\ UNCHANGED <<outcome, ret, objVars, loopVars, stepVars>>

\* An exception raised before the try block: the call ends at once.
RaiseBeforeTry ==
    /\ pc' = "idle"
    /\ outcome' = "raised"
    /\ UNCHANGED <<raising, ret, scraper_class, scroll_down, scrapes,
                   loopVars, stepVars>>

\* The caller assigns the public attribute scroll_down between two calls.
SetScrollDown(b) ==
    /\ pc = "idle"
    /\ scraper_class \in BrowserClasses
    /\ b # scroll_down
    /\ scroll_down' = b
    /\ UNCHANGED <<scraper_class, self_driver, running, scrapes, loopVars,
                   stepVars, ctlVars>>

\* scraper.scrape(url) is entered: the locals of the call are fresh.
CallScrape ==
    /\ pc = "idle"
    /\ scrapes < MaxScrapes
    /\ scrapes' = scrapes + 1
    /\ pc' = IF scraper_class = "RequestsScraper" THEN "requests" ELSE "create"
    /\ raising' = FALSE
    /\ outcome' = "none"
    /\ ret' = 0
    /\ elapsed' = 0 /\ page_height' = 0 /\ last_height' = 0 /\ new_height' = 0
    /\ loads' = 0 /\ waits' = 0 /\ scrolls' = 0 /\ reads' = 0 /\ quits' = 0
    /\ source' = 0
    /\ UNCHANGED <<scraper_class, scroll_down, self_driver, running>>

\* RequestsScraper.scrape: requests.get, raise_for_status, return response.text
RequestsScrape ==
    /\ pc = "requests"
    /\ pc' = "idle"
    /\ \/ /\ outcome' = "returned"
          /\ ret' = LoadedHeight
       \/ /\ outcome' = "raised"
          /\ ret' = 0
    /\ UNCHANGED <<raising, objVars, loopVars, stepVars>>

\* webdriver.Chrome(...) before the try block of SeleniumScraper.scrape
CreateChromeDriver ==
    /\ pc = "create"
    /\ scraper_class = "SeleniumScraper"
    /\ \/ /\ running' = running + 1
          /\ pc' = "get"
          /\ UNCHANGED <<self_driver, raising, outcome, ret, scraper_class,
                         scroll_down, scrapes, loopVars, stepVars>>
       \/ /\ RaiseBeforeTry
          /\ UNCHANGED <<self_driver, running>>

\* if self.driver is None: self.driver = webdriver.Firefox(...)
CreateFirefoxDriver ==
    /\ pc = "create"
    /\ scraper_class = "SeleniumFirefoxScraper"
    /\ \/ /\ self_driver = "None"
          /\ self_driver' = "active"
          /\ running' = running + 1
          /\ pc' = "set_timeout"
          /\ UNCHANGED <<raising, outcome, ret, scraper_class, scroll_down,
                         scrapes, loopVars, stepVars>>
       \/ /\ self_driver = "None"
          /\ RaiseBeforeTry
          /\ UNCHANGED <<self_driver, running>>
       \/ /\ self_driver # "None"
          /\ pc' = "get"
          /\ UNCHANGED <<raising, outcome, ret, objVars, loopVars, stepVars>>

\* self.driver.set_page_load_timeout(60), still before the try block
SetPageLoadTimeout ==
    /\ pc = "set_timeout"
    /\ \/ /\ pc' = "get"
          /\ UNCHANGED <<raising, outcome, ret, objVars, loopVars, stepVars>>
       \/ /\ RaiseBeforeTry
          /\ UNCHANGED <<self_driver, running>>

\* driver.get(str(url.url))
DriverGet ==
    /\ pc = "get"
    /\ \/ /\ loads' = loads + 1
          /\ page_height' = LoadedHeight
          /\ pc' = "wait"
          /\ UNCHANGED <<raising, outcome, ret, objVars, elapsed, last_height,
                         new_height, waits, scrolls, reads, quits, source>>
       \/ RaiseInTry

\* if self.scroll_down: ... else straight to return driver.page_source
AfterWait_always_scroll(flag) == "end_time"

AfterWait(flag) == IF flag THEN "end_time" ELSE "page_source"

\* WebDriverWait(driver, self.wait).until(presence of body)
WaitBody ==
    /\ pc = "wait"
    /\ \/ /\ waits' = waits + 1
          /\ pc' = AfterWait(scroll_down)
          /\ UNCHANGED <<raising, outcome, ret, objVars, loopVars, loads,
                         scrolls, reads, quits, source>>
       \/ RaiseInTry

\* end_time = time.time() + self.scroll_down_until; last_height = scrollHeight
ComputeEndTime ==
    /\ pc = "end_time"
    /\ \/ /\ elapsed' = 0
          /\ last_height' = page_height
          /\ pc' = "loop_head"
          /\ UNCHANGED <<raising, outcome, ret, objVars, page_height,
                         new_height, stepVars>>
       \/ RaiseInTry

\* while time.time() < end_time
LoopCondition_forever(e) == TRUE

LoopCondition(e) == e < ScrollDownUntil

LoopHead ==
    /\ pc = "loop_head"
    /\ pc' = IF LoopCondition(elapsed) THEN "scroll" ELSE "page_source"
    /\ UNCHANGED <<raising, outcome, ret, objVars, loopVars, stepVars>>

\* window.scrollTo(0, document.body.scrollHeight): the page may load more
ScrollToBottom ==
    /\ pc = "scroll"
    /\ \/ /\ scrolls' = scrolls + 1
          /\ \/ page_height' = page_height
             \/ /\ page_height < MaxHeight
                /\ page_height' = page_height + 1
          /\ pc' = "sleep"
          /\ UNCHANGED <<raising, outcome, ret, objVars, elapsed, last_height,
                         new_height, loads, waits, reads, quits, source>>
       \/ RaiseInTry

\* time.sleep(scroll_pause): at least scroll_pause passes
Sleep ==
    /\ pc = "sleep"
    /\ \E d \in ScrollPause .. (ScrollPause + MaxJitter) : elapsed' = elapsed + d
    /\ pc' = "measure"
    /\ UNCHANGED <<raising, outcome, ret, objVars, page_height, last_height,
                   new_height, stepVars>>

\* if new_height == last_height: break
Stable(new, last) == new = last

\* new_height = scrollHeight; break or last_height = new_height
Measure ==
    /\ pc = "measure"
    /\ \/ /\ new_height' = page_height
          /\ IF Stable(page_height, last_height)
                THEN /\ pc' = "page_source"
                     /\ last_height' = last_height
                ELSE /\ pc' = "loop_head"
                     /\ last_height' = page_height
          /\ UNCHANGED <<raising, outcome, ret, objVars, elapsed, page_height,
                         stepVars>>
       \/ RaiseInTry

\* return driver.page_source: the value is read, then finally runs
PageSource ==
    /\ pc = "page_source"
    /\ \/ /\ reads' = reads + 1
          /\ source' = page_height
          /\ pc' = "finally"
          /\ UNCHANGED <<raising, outcome, ret, objVars, loopVars, loads,
                         waits, scrolls, quits>>
       \/ RaiseInTry

\* finally: driver.quit() (and self.driver = None); then return or re-raise
Finally ==
    /\ pc = "finally"
    /\ quits' = quits + 1
    /\ running' = running - 1
    /\ self_driver' = "None"
    /\ outcome' = IF raising THEN "raised" ELSE "returned"
    /\ ret' = IF raising THEN 0 ELSE source
    /\ raising' = FALSE
    /\ pc' = "idle"
    /\ UNCHANGED <<scraper_class, scroll_down, scrapes, loopVars, loads,
                   waits, scrolls, reads, source>>

\* The steps the interpreter takes once scrape was called.
ScrapeStep ==
    \/ RequestsScrape
    \/ CreateChromeDriver
    \/ CreateFirefoxDriver
    \/ SetPageLoadTimeout
    \/ DriverGet
    \/ WaitBody
    \/ ComputeEndTime
    \/ LoopHead
    \/ ScrollToBottom
    \/ Sleep
    \/ Measure
    \/ PageSource
    \/ Finally

NextScrape ==
    \/ (\E b \in BOOLEAN : SetScrollDown(b)) /\ UNCHANGED notScrapeVars
    \/ CallScrape /\ UNCHANGED notScrapeVars
    \/ RequestsScrape /\ UNCHANGED notScrapeVars
    \/ CreateChromeDriver /\ UNCHANGED notScrapeVars
    \/ CreateFirefoxDriver /\ UNCHANGED notScrapeVars
    \/ SetPageLoadTimeout /\ UNCHANGED notScrapeVars
    \/ DriverGet /\ UNCHANGED notScrapeVars
    \/ WaitBody /\ UNCHANGED notScrapeVars
    \/ ComputeEndTime /\ UNCHANGED notScrapeVars
    \/ LoopHead /\ UNCHANGED notScrapeVars
    \/ ScrollToBottom /\ UNCHANGED notScrapeVars
    \/ Sleep /\ UNCHANGED notScrapeVars
    \/ Measure /\ UNCHANGED notScrapeVars
    \/ PageSource /\ UNCHANGED notScrapeVars
    \/ Finally /\ UNCHANGED notScrapeVars

(***************************************************************************)
(* The Article value object (models/article.py), as the specification, the *)
(* tests and the scripts that construct it describe it.                    *)
(***************************************************************************)
\* A keyword argument: given with a value, or left out.
Given(v) == [given |-> TRUE, v |-> v]

Missing == [given |-> FALSE, v |-> ""]

\* A URL string by its parts; an absent part is the empty string.
RawUrl(scheme, host, path) == [scheme |-> scheme, host |-> host, path |-> path]

\* The string a RawUrl stands for, and str() of a validated url.
UrlStr(u) ==
    IF u.scheme = "" THEN u.host \o u.path
    ELSE u.scheme \o "://" \o u.host \o u.path

RawUrls ==
    { RawUrl("https", "example.com", ""),
      RawUrl("https", "example.com", "/"),
      RawUrl("http", "example.com", "/news"),
      RawUrl("", "invalid-url", ""),
      RawUrl("https", "", "") }

\* The url is an http(s) URL with a host.
WellFormed_any(u) == TRUE

WellFormed(u) == u.scheme \in {"http", "https"} /\ u.host # ""

\* The validated url: an empty path becomes "/".
Normalise(u) == [u EXCEPT !.path = IF u.path = "" THEN "/" ELSE u.path]

\* The strings that parse as a UUID.
Uuids_any == {"uuid-a", "uuid-b", "not-a-valid-uuid"}

Uuids == {"uuid-a", "uuid-b"}

\* A UUID object: one parsed from a string, or the k-th draw of uuid4().
UuidFrom(str) == [uuid |-> TRUE, str |-> str, draw |-> 0]

Uuid4(k) == [uuid |-> TRUE, str |-> "", draw |-> k]

MissingUrl == [given |-> FALSE, v |-> RawUrl("", "", "")]

NoArticle == [exists |-> FALSE]

Titles == {"", "Test"}

\* title is the one required field.
Required_none(kw) == TRUE

Required(kw) == kw.title.given

\* The fields of the Article built from valid keyword arguments.
ArticleOf(kw, k) ==
    [exists |-> TRUE,
     title |-> kw.title.v,
     author |-> IF kw.author.given THEN Given(kw.author.v) ELSE Missing,
     content |-> IF kw.content.given THEN Given(kw.content.v) ELSE Missing,
     url |-> IF kw.url.given THEN Given(Normalise(kw.url.v)) ELSE MissingUrl,
     id |-> IF kw.id.given THEN UuidFrom(kw.id.v) ELSE Uuid4(k)]

\* Article(**kw) passes validation.
Article_valid(kw) ==
    /\ Required(kw)
    /\ kw.url.given => WellFormed(kw.url.v)
    /\ kw.id.given => kw.id.v \in Uuids

ArticleKwargs ==
    [title : {Missing} \cup {Given(t) : t \in Titles},
     author : {Missing} \cup {Given(t) : t \in Titles},
     content : {Missing} \cup {Given(t) : t \in Titles},
     url : {MissingUrl} \cup {Given(u) : u \in RawUrls},
     id : {Missing, Given("uuid-a"), Given("not-a-valid-uuid")}]

NoKwargs ==
    [title |-> Missing, author |-> Missing, content |-> Missing,
     url |-> MissingUrl, id |-> Missing]

InitArticle ==
    /\ article_kwargs = NoKwargs
    /\ article_obj = NoArticle
    /\ article_error = FALSE
    /\ built = 0

\* Article(**kw): the object, or ValidationError and no object.
ConstructArticle(kw) ==
    /\ built < MaxBuilt
    /\ article_kwargs' = kw
    /\ IF Article_valid(kw)
         THEN /\ article_obj' = ArticleOf(kw, built + 1)
              /\ article_error' = FALSE
              /\ built' = built + 1
         ELSE /\ article_obj' = NoArticle
              /\ article_error' = TRUE
              /\ built' = built

NextArticle ==
    \/ /\ \E kw \in ArticleKwargs : ConstructArticle(kw)
       /\ UNCHANGED <<factoryVars, scrapeVars, scriptVars>>

(***************************************************************************)
(* The scripts: scrape_abante_cloudinary.py, scrape_abante2.py and         *)
(* fill_missing_data_abante.py, each run once against the articles table.  *)
(***************************************************************************)
PyNone == "None"

NULL == "NULL"

\* str(uuid): the text of a UUID object
IdStr(id) == IF id.draw = 0 THEN id.str ELSE "uuid4-" \o ToString(id.draw)

\* The hrefs and the image sources an article element may carry.
Hrefs ==
    { RawUrl("https", "example.com", ""),
      RawUrl("https", "example.com", "/"),
      RawUrl("http", "example.com", "/news"),
      RawUrl("", "invalid-url", "") }

ImgSrcs == {PyNone, "img.jpg"}

Elements == [href : Hrefs, img : ImgSrcs]

Listings == UNION {[1..n -> Elements] : n \in 0..MaxArticles}

\* The urls the rows of the table carry before the run.
StoredUrls == {"https://example.com/", "http://example.com/news"}

RowId(url) == IF url = "https://example.com/" THEN "uuid-a" ELSE "uuid-b"

Row(id, url, s3_img, author, content, tags, published_at) ==
    [id |-> id, url |-> url, s3_img |-> s3_img, author |-> author,
     content |-> content, tags |-> tags, published_at |-> published_at]

\* Tables of listing rows: no two rows share a url.
ListingTables ==
    { {Row(RowId(u), u, f[u], NULL, NULL, "[]", NULL) : u \in present} :
        present \in SUBSET StoredUrls,
        f \in [StoredUrls -> {NULL, "https://res.cloudinary.com/old.jpg"}] }

NullOrSet == {NULL, "set"}

\* Tables whose rows may lack author, content, tags, published_at or url.
DetailRows(id) ==
    { Row(id, u, NULL, a, c, t, p) :
        u \in {NULL, "https://example.com/"}, a \in NullOrSet,
        c \in NullOrSet, t \in NullOrSet, p \in NullOrSet }

DetailTables ==
    {{}} \cup {{r} : r \in DetailRows("uuid-a")}
         \cup {{r1, r2} : r1 \in DetailRows("uuid-a"),
                          r2 \in { r \in DetailRows("uuid-b") :
                                    r.author = r.content /\ r.tags = "set" }}

NoOp == [fn |-> "none", article |-> 0, sdk |-> "none", result |-> "none",
         raised |-> FALSE]

Op(fn, article, sdk, result, raised) ==
    [fn |-> fn, article |-> article, sdk |-> sdk, result |-> result,
     raised |-> raised]

NoInfo == [content |-> PyNone, published_at |-> PyNone]

InitScripts ==
    /\ script \in {"cloudinary", "abante2", "fill"}
    /\ spc = "start"
    /\ table \in IF script = "fill" THEN DetailTables ELSE ListingTables
    /\ elements = <<>>
    /\ articles = <<>>
    /\ idx = 0
    /\ target_id = PyNone
    /\ inserted_data = PyNone
    /\ cloudinary_url = PyNone
    /\ missing = <<>>
    /\ scraped_info = NoInfo
    /\ scrape_calls = 0
    /\ update_calls = 0
    /\ last_op = NoOp

QuietScripts ==
    /\ InitScripts
    /\ script = "cloudinary"
    /\ table = {}

\* ---- the adapters: what each returns for an outcome of the SDK call.
\* A result is [raised, value]: raised when the exception leaves the function.
Result(raised, value) == [raised |-> raised, value |-> value]

CdnUrl(img) == "https://res.cloudinary.com/" \o img

\* upload_image_to_cloudinary: secure_url of the upload, None on error
upload_image_to_cloudinary_always_url(sdk, img) == Result(FALSE, CdnUrl(img))

upload_image_to_cloudinary(sdk, img) ==
    CASE sdk = "raises" -> Result(FALSE, PyNone)
      [] sdk = "no_url" -> Result(FALSE, PyNone)
      [] OTHER -> Result(FALSE, CdnUrl(img))

S3Url(img) == "https://bucket.s3.amazonaws.com/scraped/" \o img

\* upload_image_to_s3: the object's url, None on error
upload_image_to_s3(sdk, img) ==
    IF sdk = "raises" THEN Result(FALSE, PyNone) ELSE Result(FALSE, S3Url(img))

\* insert_article: response.data, None on error
insert_article_unguarded(sdk) ==
    IF sdk = "raises" THEN Result(TRUE, PyNone) ELSE Result(FALSE, "data")

insert_article(sdk) ==
    IF sdk = "raises" THEN Result(FALSE, PyNone) ELSE Result(FALSE, "data")

\* update_article_image_in_supabase / update_article_in_supabase:
\* True when response.data is not empty, False otherwise and on error
update_in_supabase(sdk, matched) ==
    IF sdk = "raises" THEN Result(FALSE, "False")
    ELSE IF matched THEN Result(FALSE, "True")
    ELSE Result(FALSE, "False")

\* Where a script goes after an adapter call.
Continue(res, next) == IF res.raised THEN "crashed" ELSE next

\* ---- process_article_html
\* Article(title=title, url=url, s3_img=...) for one element
ElementKwargs(e) ==
    [title |-> Given("Test"), author |-> Missing, content |-> Missing,
     url |-> Given(e.href), id |-> Missing]

\* The Article with the two attributes the scripts attach to it.
ScriptArticle(e, k, s3_img) ==
    [art |-> ArticleOf(ElementKwargs(e), k), s3_img |-> s3_img,
     original_img_url |-> e.img]

\* The elements whose Article passes validation, in order; the others are
\* skipped by the except branch.
RECURSIVE ProcessElements(_, _)
ProcessElements(els, k) ==
    IF els = <<>> THEN <<>>
    ELSE IF Article_valid(ElementKwargs(Head(els)))
         THEN <<ScriptArticle(Head(els), k, PyNone)>>
              \o ProcessElements(Tail(els), k + 1)
         ELSE ProcessElements(Tail(els), k)

\* str(article.url)
ArticleUrl(a) == UrlStr(a.art.url.v)

\* The row insert_article of scrape_abante_cloudinary.py sends.
CloudinaryRow(a) ==
    Row(IdStr(a.art.id), ArticleUrl(a),
        IF a.s3_img # PyNone THEN a.s3_img ELSE NULL, NULL, NULL, "[]", NULL)

\* The row insert_article of scrape_abante2.py sends: str() of every field.
Abante2Row(a) ==
    Row(IdStr(a.art.id), ArticleUrl(a), a.s3_img, NULL, NULL, "[]", NULL)

\* ---- steps shared by scrape_abante_cloudinary.py and scrape_abante2.py
\* The scraper main asks the factory for.
MainScraperKey(platform) ==
    IF script = "abante2" THEN "SELENIUM"
    ELSE IF platform = "Windows" THEN "SELENIUM"
    ELSE IF platform = "Linux" THEN "FIREFOX"
    ELSE NotAMember

\* scraper = ScraperFactory().get_scraper(...); on a platform that is
\* neither Windows nor Linux no scraper is bound and main fails.
ObtainScraper ==
    /\ spc = "start"
    /\ script \in {"cloudinary", "abante2"}
    /\ \E platform \in {"Windows", "Linux", "Darwin"},
          exists \in BOOLEAN, install_ok \in BOOLEAN :
          spc' = IF MatchScraper(MainScraperKey(platform), exists,
                                 install_ok).kind = "returned"
                   THEN "scrape" ELSE "crashed"
    /\ UNCHANGED <<script, table, elements, articles, idx, target_id,
                   inserted_data, cloudinary_url, missing, scraped_info,
                   scrape_calls, update_calls, last_op>>

\* html_str = scraper.scrape(site); for the Cloudinary script also
\* articles = process_article_html(html_str), which calls no service.
ScrapeListing ==
    /\ spc = "scrape"
    /\ scrape_calls' = scrape_calls + 1
    /\ \/ /\ \E l \in Listings :
                /\ elements' = l
                /\ articles' = IF script = "cloudinary"
                                  THEN ProcessElements(l, 1) ELSE <<>>
          /\ spc' = IF script = "cloudinary" THEN "for" ELSE "proc_for"
       \/ /\ spc' = "crashed"
          /\ UNCHANGED <<elements, articles>>
    /\ UNCHANGED <<script, table, idx, target_id, inserted_data,
                   cloudinary_url, missing, scraped_info, update_calls,
                   last_op>>

\* ---- the main loop of scrape_abante_cloudinary.py
\* for article in articles
ForNext ==
    /\ spc = "for"
    /\ IF idx < Len(articles)
         THEN /\ idx' = idx + 1
              /\ spc' = "lookup"
         ELSE /\ idx' = idx
              /\ spc' = "done"
    /\ target_id' = PyNone
    /\ inserted_data' = PyNone
    /\ cloudinary_url' = PyNone
    /\ UNCHANGED <<script, table, elements, articles, missing, scraped_info,
                   scrape_calls, update_calls, last_op>>

\* if existing_data:
Exists_never(existing_data) == FALSE

Exists(existing_data) == existing_data # {}

\* select id, s3_img where url = str(article.url) limit 1, then the branch
\* on existing_data and, for a row found, on its s3_img
LookupByUrl ==
    /\ spc = "lookup"
    /\ LET a == articles[idx]
           matching == {r \in table : r.url = ArticleUrl(a)}
       IN  \/ /\ last_op' = Op("lookup", idx, "raises", "none", TRUE)
              /\ spc' = "crashed"
              /\ UNCHANGED target_id
           \/ /\ ~Exists(matching)
              /\ last_op' = Op("lookup", idx, "ok", "empty", FALSE)
              /\ spc' = "insert"
              /\ UNCHANGED target_id
           \/ /\ Exists(matching)
              /\ \E r \in matching :
                    /\ target_id' = r.id
                    /\ spc' = IF r.s3_img = NULL /\ a.original_img_url # PyNone
                                THEN "upload" ELSE "for"
              /\ last_op' = Op("lookup", idx, "ok", "rows", FALSE)
    /\ UNCHANGED <<script, table, elements, articles, idx, inserted_data,
                   cloudinary_url, missing, scraped_info, scrape_calls,
                   update_calls>>

\* inserted_data = insert_article(article); new_article_id; the branches
InsertArticle ==
    /\ spc = "insert"
    /\ \E sdk \in {"ok", "raises"} :
          LET a == articles[idx]
              row == CloudinaryRow(a)
              res == insert_article(sdk)
          IN  /\ table' = IF sdk = "ok" THEN table \cup {row} ELSE table
              /\ inserted_data' = res.value
              /\ target_id' = IF res.value # PyNone THEN row.id ELSE target_id
              /\ spc' = Continue(res,
                           IF res.value # PyNone /\ a.original_img_url # PyNone
                             THEN "upload" ELSE "for")
              /\ last_op' = Op("insert_article", idx, sdk, res.value, res.raised)
    /\ UNCHANGED <<script, elements, articles, idx, cloudinary_url, missing,
                   scraped_info, scrape_calls, update_calls>>

\* original_img_url = getattr(article, "_original_img_url", None): the
\* article whose image is uploaded is the one of the running iteration
ImageOwner_first(i) == 1

ImageOwner(i) == i

\* cloudinary_url = upload_image_to_cloudinary(original_img_url)
UploadImage ==
    /\ spc = "upload"
    /\ \E sdk \in {"ok", "no_url", "raises"} :
          LET a == articles[ImageOwner(idx)]
              res == upload_image_to_cloudinary(sdk, a.original_img_url)
          IN  /\ cloudinary_url' = res.value
              /\ spc' = Continue(res, IF res.value # PyNone THEN "update" ELSE "for")
              /\ last_op' = Op("upload_image_to_cloudinary", ImageOwner(idx),
                               sdk, res.value, res.raised)
    /\ UNCHANGED <<script, table, elements, articles, idx, target_id,
                   inserted_data, missing, scraped_info, scrape_calls,
                   update_calls>>

\* update_article_image_in_supabase(article_id, cloudinary_url)
UpdateImage ==
    /\ spc = "update"
    /\ \E sdk \in {"ok", "raises"} :
          LET matched == \E r \in table : r.id = target_id
              res == update_in_supabase(sdk, matched)
          IN  /\ table' = IF sdk = "ok"
                            THEN { IF r.id = target_id
                                     THEN [r EXCEPT !.s3_img = cloudinary_url]
                                     ELSE r : r \in table }
                            ELSE table
              /\ spc' = Continue(res, "for")
              /\ last_op' = Op("update_article_image_in_supabase", idx, sdk,
                               res.value, res.raised)
    /\ UNCHANGED <<script, elements, articles, idx, target_id, inserted_data,
                   cloudinary_url, missing, scraped_info, scrape_calls,
                   update_calls>>

\* ---- scrape_abante2.py
\* articles.append(article) unless Article(...) raised
AppendIfValid(arts, e, s3_img) ==
    IF Article_valid(ElementKwargs(e))
      THEN Append(arts, ScriptArticle(e, Len(arts) + 1, s3_img))
      ELSE arts

\* for article_element in article_elements, up to the image upload
ProcFor ==
    /\ spc = "proc_for"
    /\ IF idx < Len(elements)
         THEN /\ idx' = idx + 1
              /\ IF elements[idx + 1].img # PyNone
                    THEN /\ spc' = "s3_upload"
                         /\ articles' = articles
                    ELSE /\ spc' = "proc_for"
                         /\ articles' = AppendIfValid(articles, elements[idx + 1],
                                                      PyNone)
         ELSE /\ idx' = 0
              /\ spc' = "main_for"
              /\ articles' = articles
    /\ UNCHANGED <<script, table, elements, target_id, inserted_data,
                   cloudinary_url, missing, scraped_info, scrape_calls,
                   update_calls, last_op>>

\* s3_image_url = upload_image_to_s3(img_url); article = Article(...)
S3Upload ==
    /\ spc = "s3_upload"
    /\ \E sdk \in {"ok", "raises"} :
          LET e == elements[idx]
              res == upload_image_to_s3(sdk, e.img)
          IN  /\ articles' = AppendIfValid(articles, e, res.value)
              /\ spc' = Continue(res, "proc_for")
              /\ last_op' = Op("upload_image_to_s3", idx, sdk, res.value,
                               res.raised)
    /\ UNCHANGED <<script, table, elements, idx, target_id, inserted_data,
                   cloudinary_url, missing, scraped_info, scrape_calls,
                   update_calls>>

\* for article in articles (main of scrape_abante2.py)
MainFor ==
    /\ spc = "main_for"
    /\ IF idx < Len(articles)
         THEN /\ idx' = idx + 1
              /\ spc' = "insert2"
         ELSE /\ idx' = idx
              /\ spc' = "done"
    /\ UNCHANGED <<script, table, elements, articles, target_id,
                   inserted_data, cloudinary_url, missing, scraped_info,
                   scrape_calls, update_calls, last_op>>

\* inserted_data = insert_article(article), with no lookup before it
InsertUnchecked ==
    /\ spc = "insert2"
    /\ \E sdk \in {"ok", "raises"} :
          LET res == insert_article(sdk)
          IN  /\ table' = IF sdk = "ok"
                            THEN table \cup {Abante2Row(articles[idx])}
                            ELSE table
              /\ inserted_data' = res.value
              /\ spc' = Continue(res, "main_for")
              /\ last_op' = Op("insert_article", idx, sdk, res.value, res.raised)
    /\ UNCHANGED <<script, elements, articles, idx, target_id, cloudinary_url,
                   missing, scraped_info, scrape_calls, update_calls>>

\* ---- fill_missing_data_abante.py
\* or_("author.is.null,content.is.null,tags.is.null,published_at.is.null")
HasMissingInfo_any(r) == TRUE

HasMissingInfo(r) ==
    r.author = NULL \/ r.content = NULL \/ r.tags = NULL \/ r.published_at = NULL

\* .limit(1).execute(): the lists response.data may be
QueryResults(t) ==
    LET m == {r \in t : HasMissingInfo(r)}
    IN  IF m = {} THEN {<<>>} ELSE {<<r>> : r \in m}

\* get_articles_with_missing_info: response.data, [] on error
get_articles_with_missing_info(sdk, data) ==
    IF sdk = "raises" THEN Result(FALSE, <<>>) ELSE Result(FALSE, data)

\* articles_to_update = get_articles_with_missing_info(); if not ...: return
QueryMissing ==
    /\ spc = "start"
    /\ script = "fill"
    /\ \E sdk \in {"ok", "raises"}, data \in QueryResults(table) :
          LET res == get_articles_with_missing_info(sdk, data)
          IN  /\ missing' = res.value
              /\ spc' = Continue(res, IF res.value = <<>> THEN "done"
                                      ELSE "fill_for")
              /\ last_op' = Op("get_articles_with_missing_info", 0, sdk,
                               IF res.value = <<>> THEN "empty" ELSE "rows",
                               res.raised)
    /\ UNCHANGED <<script, table, elements, articles, idx, target_id,
                   inserted_data, cloudinary_url, scraped_info, scrape_calls,
                   update_calls>>

\* for article_record in articles_to_update; a record without url is skipped
FillFor ==
    /\ spc = "fill_for"
    /\ IF idx < Len(missing)
         THEN /\ idx' = idx + 1
              /\ spc' = IF missing[idx + 1].url = NULL THEN "fill_for"
                        ELSE "scrape_info"
         ELSE /\ idx' = idx
              /\ spc' = "done"
    /\ UNCHANGED <<script, table, elements, articles, target_id,
                   inserted_data, cloudinary_url, missing, scraped_info,
                   scrape_calls, update_calls, last_op>>

\* scraped_info = scrape_missing_info(article_url): author and tags are always
\* set, content and published_at may be None; the scrape may raise
ScrapeMissingInfo ==
    /\ spc = "scrape_info"
    /\ scrape_calls' = scrape_calls + 1
    /\ \/ /\ \E c \in {PyNone, "text"}, d \in {PyNone, "date"} :
                scraped_info' = [content |-> c, published_at |-> d]
          /\ spc' = "fill_update"
       \/ /\ spc' = "crashed"
          /\ UNCHANGED scraped_info
    /\ UNCHANGED <<script, table, elements, articles, idx, target_id,
                   inserted_data, cloudinary_url, missing, update_calls,
                   last_op>>

\* update_payload: the scraped values that are not None
ApplyInfo(r, info) ==
    [r EXCEPT !.author = "set",
              !.content = IF info.content # PyNone THEN "set" ELSE @,
              !.tags = "set",
              !.published_at = IF info.published_at # PyNone THEN "set" ELSE @]

\* update_article_in_supabase(article_id, update_payload)
UpdateArticle ==
    /\ spc = "fill_update"
    /\ update_calls' = update_calls + 1
    /\ \E sdk \in {"ok", "raises"} :
          LET id == missing[idx].id
              matched == \E r \in table : r.id = id
              res == update_in_supabase(sdk, matched)
          IN  /\ table' = IF sdk = "ok"
                            THEN { IF r.id = id THEN ApplyInfo(r, scraped_info)
                                   ELSE r : r \in table }
                            ELSE table
              /\ spc' = Continue(res, "fill_for")
              /\ last_op' = Op("update_article_in_supabase", idx, sdk,
                               res.value, res.raised)
    /\ UNCHANGED <<script, elements, articles, idx, target_id, inserted_data,
                   cloudinary_url, missing, scraped_info, scrape_calls>>

notScriptVars == <<factoryVars, scrapeVars, articleVars>>

NextScripts ==
    \/ ObtainScraper /\ UNCHANGED notScriptVars
    \/ ScrapeListing /\ UNCHANGED notScriptVars
    \/ ForNext /\ UNCHANGED notScriptVars
    \/ LookupByUrl /\ UNCHANGED notScriptVars
    \/ InsertArticle /\ UNCHANGED notScriptVars
    \/ UploadImage /\ UNCHANGED notScriptVars
    \/ UpdateImage /\ UNCHANGED notScriptVars
    \/ ProcFor /\ UNCHANGED notScriptVars
    \/ S3Upload /\ UNCHANGED notScriptVars
    \/ MainFor /\ UNCHANGED notScriptVars
    \/ InsertUnchecked /\ UNCHANGED notScriptVars
    \/ QueryMissing /\ UNCHANGED notScriptVars
    \/ FillFor /\ UNCHANGED notScriptVars
    \/ ScrapeMissingInfo /\ UNCHANGED notScriptVars
    \/ UpdateArticle /\ UNCHANGED notScriptVars

(***************************************************************************)
(* Parts at rest: the values a part keeps under another part's             *)
(* specification.                                                          *)
(***************************************************************************)
QuietFactory ==
    /\ factory_scraper = "REQUESTS"
    /\ constructor_arg = DefaultArg
    /\ firefox_esr_exists = TRUE
    /\ calls = <<>>
    /\ results = <<>>

QuietScrape ==
    /\ InitScrape
    /\ scraper_class = "RequestsScraper"

(***************************************************************************)
(* Specifications.                                                         *)
(***************************************************************************)
InitSpecFactory ==
    /\ InitFactory
    /\ QuietScrape
    /\ InitArticle
    /\ QuietScripts

SpecFactory == InitSpecFactory /\ [][NextFactory]_vars

InitSpecScrape ==
    /\ QuietFactory
    /\ InitScrape
    /\ InitArticle
    /\ QuietScripts

SpecScrape == InitSpecScrape /\ [][NextScrape]_vars

InitSpecArticle ==
    /\ QuietFactory
    /\ QuietScrape
    /\ InitArticle
    /\ QuietScripts

SpecArticle == InitSpecArticle /\ [][NextArticle]_vars

InitSpecScripts ==
    /\ QuietFactory
    /\ QuietScrape
    /\ InitArticle
    /\ InitScripts

SpecScripts == InitSpecScripts /\ [][NextScripts]_vars

\* The interpreter keeps running a call that was started.
FairSpecScrape ==
    SpecScrape /\ WF_vars(ScrapeStep /\ UNCHANGED notScrapeVars)

(***************************************************************************)
(* Claims about ScraperFactory, checked under SpecFactory.                 *)
(***************************************************************************)
\* The value get_scraper matches on at call i: the latest argument that was
\* not None, else the value the constructor stored.
EffectiveKey(i) ==
    LET given == {j \in 1..i : calls[j] # NoneArg}
    IN  IF given = {} THEN ScraperFactory_init(constructor_arg)
        ELSE calls[CHOOSE j \in given : \A k \in given : k <= j]

\* C1: on a factory built with the default type, get_scraper(REQUESTS) and
\* then get_scraper(SCRAPY) each return an instance of Scraper; neither
\* call raises.
C1_FactoryObjectCreation ==
    (/\ constructor_arg = DefaultArg
     /\ Len(calls) >= 2
     /\ calls[1] = "REQUESTS"
     /\ calls[2] = "SCRAPY")
    => \A i \in 1..2 : results[i].kind = "returned" /\ IsScraper(results[i].value)

\* What C2 says of every key but FIREFOX: the class follows from the key
\* alone, and a value outside the enum raises ValueError.
C2_KeyedSelection(i) ==
    LET r == results[i]
    IN  /\ r.key = EffectiveKey(i)
        /\ r.key = "REQUESTS" => r = Returned(r.key, "RequestsScraper")
        /\ r.key = "SELENIUM" => r = Returned(r.key, "SeleniumScraper")
        /\ r.key \notin Scrapers => r = Raised(r.key, "ValueError")

\* C2 as written: every call selects by the key alone; REQUESTS yields a
\* RequestsScraper, SELENIUM a SeleniumScraper, FIREFOX a
\* SeleniumFirefoxScraper, and a stored value outside the enum raises
\* ValueError.
C2_SelectsByKeyAlone ==
    \A i \in 1..Len(results) :
        /\ C2_KeyedSelection(i)
        /\ results[i].key = "FIREFOX"
             => results[i] = Returned("FIREFOX", "SeleniumFirefoxScraper")

\* C2 amended: as above, but FIREFOX yields a SeleniumFirefoxScraper only
\* when its constructor completes; with the Firefox ESR binary missing the
\* call raises FileNotFoundError, and a failed driver installation raises
\* too. No other class is ever returned for FIREFOX.
C2_SelectsByKeyUnlessConstructorRaises ==
    \A i \in 1..Len(results) :
        /\ C2_KeyedSelection(i)
        /\ results[i].key = "FIREFOX"
             => \/ /\ firefox_esr_exists
                   /\ results[i] = Returned("FIREFOX", "SeleniumFirefoxScraper")
                \/ /\ ~firefox_esr_exists
                   /\ results[i] = Raised("FIREFOX", "FileNotFoundError")
                \/ /\ firefox_esr_exists
                   /\ results[i] = Raised("FIREFOX", "DriverInstallError")

\* A FIREFOX scraper was returned, the stored key was used again by a call
\* without argument, and a value outside the enum raised ValueError.
C2_Witness ==
    /\ Len(results) = 3
    /\ results[1] = Returned("FIREFOX", "SeleniumFirefoxScraper")
    /\ calls[2] = NoneArg
    /\ results[2].key = "FIREFOX"
    /\ results[3] = Raised(NotAMember, "ValueError")

(***************************************************************************)
(* Claims about the browser scrape call, checked under SpecScrape and      *)
(* FairSpecScrape.                                                         *)
(***************************************************************************)
LoopPcs == {"loop_head", "scroll", "sleep", "measure"}

\* Each iteration lasts at least scroll_pause, so the k-th scroll starts
\* before the deadline only if (k-1) pauses fit before it.
C3_IterationBound ==
    scrolls > 0 => (scrolls - 1) * ScrollPause < ScrollDownUntil

\* The loop goes on after a measurement only if the height changed and the
\* deadline is not reached; it is left on an unchanged height or at the
\* deadline.
C3_LoopSteps ==
    [][/\ (pc = "measure" /\ pc' = "loop_head") => new_height' # last_height
       /\ (pc = "measure" /\ pc' = "page_source") => new_height' = last_height
       /\ (pc = "loop_head" /\ pc' = "scroll") => elapsed < ScrollDownUntil
       /\ (pc = "loop_head" /\ pc' = "page_source") => elapsed >= ScrollDownUntil
      ]_vars

\* C3: the scroll loop always terminates: it ends at the first iteration
\* whose new height equals the previous one, or once the clock has reached
\* the deadline, even for a page that grows on every scroll.
C3_ScrollLoopTerminates ==
    /\ []C3_IterationBound
    /\ C3_LoopSteps
    /\ (pc \in LoopPcs) ~> (pc \notin LoopPcs)

\* The page grew on every one of ten scrolls and the deadline ended the loop.
C3_Witness ==
    /\ pc = "page_source"
    /\ scrolls = 10
    /\ page_height = LoadedHeight + 10
    /\ new_height = page_height
    /\ elapsed >= ScrollDownUntil

\* A browser call that returned did each step once, in order, and returned
\* the page source it read last.
C4_ReturnedCall ==
    (outcome = "returned" /\ scraper_class \in BrowserClasses)
    => /\ loads = 1 /\ waits = 1 /\ reads = 1 /\ quits = 1
       /\ ret = source
       /\ source = page_height

\* C4: in one browser scrape call the page is loaded, then the wait for
\* body completes, then all scrolls run, then the page source is read
\* exactly once, and only then the driver is quit; the value returned is
\* that page source, and no scroll runs when scroll_down is false.
C4_StepOrder ==
    /\ []C4_ReturnedCall
    /\ [][/\ (loads' > loads) => (loads = 0 /\ waits = 0 /\ quits = 0)
          /\ (waits' > waits)
               => (loads = 1 /\ waits = 0 /\ scrolls = 0 /\ quits = 0)
          /\ (scrolls' > scrolls)
               => (scroll_down /\ waits = 1 /\ reads = 0 /\ quits = 0)
          /\ (reads' > reads) => (waits = 1 /\ reads = 0 /\ quits = 0)
          /\ (quits' > quits /\ outcome' = "returned")
               => (reads = 1 /\ quits = 0)
         ]_vars

\* A Firefox call scrolled a growing page and returned what it read; an
\* earlier call on the same object ran without scrolling.
C4_Witness ==
    /\ scraper_class = "SeleniumFirefoxScraper"
    /\ outcome = "returned"
    /\ scrolls >= 2
    /\ ret = source
    /\ source > LoadedHeight
    /\ scrapes = 2

(***************************************************************************)
(* Claims about the scripts, checked under SpecScripts.                    *)
(***************************************************************************)
\* No two rows of the table share a url.
C5_UrlsUnique ==
    script = "cloudinary"
    => \A r1 \in table, r2 \in table : r1.url = r2.url => r1 = r2

\* insert_article is called only right after the lookup for the same article
\* returned no row.
C5_InsertAfterEmptyLookup ==
    [][(script = "cloudinary" /\ last_op' # last_op
          /\ last_op'.fn = "insert_article")
        => (/\ last_op.fn = "lookup"
            /\ last_op.result = "empty"
            /\ last_op.article = last_op'.article)
      ]_vars

\* C5: the Cloudinary run inserts an article only if the lookup by its url
\* returned no row, so a table without two rows of one url stays so, also
\* when the listing names the same url more than once.
C5_RunAvoidsDuplicates ==
    /\ []C5_UrlsUnique
    /\ C5_InsertAfterEmptyLookup

\* The listing named one url twice, in two spellings; the first was
\* inserted, the second was found, and the run is over.
C5_Witness ==
    /\ script = "cloudinary"
    /\ spc = "done"
    /\ Len(articles) = 2
    /\ ArticleUrl(articles[1]) = ArticleUrl(articles[2])
    /\ elements[1].href # elements[2].href
    /\ Cardinality(table) = 1
    /\ \E r \in table : r.id = IdStr(articles[1].art.id)

\* C6: in the main loop of scrape_abante_cloudinary.py every database or CDN
\* operation works on the article of the running iteration; the sequence of
\* operations never returns to an earlier article, and moves to the next
\* article only with that article's lookup.
C6_OneArticleAtATime ==
    [][(script = "cloudinary" /\ last_op' # last_op)
        => (/\ last_op'.article = idx'
            /\ last_op'.article >= last_op.article
            /\ (last_op'.article > last_op.article) <=> (last_op'.fn = "lookup"))
      ]_vars

\* The image of the second article was stored after the first article's
\* operations.
C6_Witness ==
    /\ script = "cloudinary"
    /\ idx = 2
    /\ last_op.fn = "update_article_image_in_supabase"
    /\ last_op.article = 2
    /\ last_op.result = "True"
    /\ Cardinality(table) = 2

Adapters ==
    {"upload_image_to_cloudinary", "upload_image_to_s3", "insert_article",
     "update_article_image_in_supabase", "update_article_in_supabase"}

\* C7: when the SDK or HTTP call under an adapter raises, the adapter does
\* not raise: the uploads and insert_article return None, the two update
\* functions return False, and the script goes on.
C7_AdaptersReturnFailure ==
    (last_op.fn \in Adapters /\ last_op.sdk = "raises")
    => /\ ~last_op.raised
       /\ spc # "crashed"
       /\ last_op.result =
            IF last_op.fn \in {"update_article_image_in_supabase",
                               "update_article_in_supabase"}
              THEN "False" ELSE PyNone

\* insert_article failed on the second article of a run that went on to
\* its end.
C7_Witness ==
    /\ last_op.fn = "insert_article"
    /\ last_op.sdk = "raises"
    /\ last_op.article = 2
    /\ last_op.result = PyNone
    /\ spc = "done"

\* C8: get_articles_with_missing_info returns at most one record, each with
\* a NULL author, content, tags or published_at; when the query raises it
\* returns an empty list and main stops without scraping a page or updating
\* a row.
C8_MissingInfoQuery ==
    script = "fill"
    => /\ Len(missing) <= 1
       /\ \A i \in 1..Len(missing) :
            \/ missing[i].author = NULL
            \/ missing[i].content = NULL
            \/ missing[i].tags = NULL
            \/ missing[i].published_at = NULL
       /\ (last_op.fn = "get_articles_with_missing_info" /\ last_op.sdk = "raises")
            => /\ missing = <<>>
               /\ spc = "done"
               /\ scrape_calls = 0
               /\ update_calls = 0

\* The query raised although two rows lacked information.
C8_Witness ==
    /\ script = "fill"
    /\ last_op.fn = "get_articles_with_missing_info"
    /\ last_op.sdk = "raises"
    /\ spc = "done"
    /\ Cardinality({r \in table : r.author = NULL}) = 2

(***************************************************************************)
(* Claims about Article, checked under SpecArticle.                        *)
(***************************************************************************)
\* Title, author and content given as strings: the Article is built and
\* keeps them.
C9_StringsKept ==
    (/\ article_kwargs.title.given
     /\ article_kwargs.author.given
     /\ article_kwargs.content.given
     /\ ~article_kwargs.url.given
     /\ ~article_kwargs.id.given)
    => /\ ~article_error
       /\ article_obj.exists
       /\ article_obj.title = article_kwargs.title.v
       /\ article_obj.author = Given(article_kwargs.author.v)
       /\ article_obj.content = Given(article_kwargs.content.v)

\* C9: an Article built from title, author and content (any strings, the
\* empty one included) keeps the three values; Article() with no field
\* raises ValidationError.
C9_ArticleConstruction ==
    /\ []C9_StringsKept
    /\ [][article_kwargs' = NoKwargs
           => (article_error' /\ article_obj' = NoArticle)]_vars

\* Three empty strings were accepted and kept.
C9_Witness ==
    /\ article_kwargs.title = Given("")
    /\ article_kwargs.author = Given("")
    /\ article_kwargs.content = Given("")
    /\ article_obj.exists
    /\ article_obj.title = ""
    /\ article_obj.author = Given("")

\* C10: a url that is not well-formed raises ValidationError and no Article
\* is built; a well-formed url is accepted and stored normalised
\* ("https://example.com" as "https://example.com/").
C10_UrlValidated ==
    article_kwargs.url.given
    => LET str == UrlStr(article_kwargs.url.v)
       IN  /\ str \in {"invalid-url", "https://"}
                => (article_error /\ article_obj = NoArticle)
           /\ (/\ str \in {"https://example.com", "https://example.com/",
                            "http://example.com/news"}
               /\ article_kwargs.title.given
               /\ article_kwargs.id # Given("not-a-valid-uuid"))
                => /\ ~article_error
                   /\ article_obj.exists
                   /\ UrlStr(article_obj.url.v) =
                        IF str = "https://example.com"
                          THEN "https://example.com/" ELSE str

\* "https://example.com" was accepted and is stored with the trailing slash.
C10_Witness ==
    /\ article_kwargs.url.given
    /\ UrlStr(article_kwargs.url.v) = "https://example.com"
    /\ article_obj.exists
    /\ UrlStr(article_obj.url.v) = "https://example.com/"

\* C11: every Article that exists has a UUID as its id: one generated by
\* uuid4() when no id was supplied, the parsed one when a valid id was; an
\* id that is not a valid UUID raises ValidationError and no Article is
\* built.
C11_IdIsUuid ==
    /\ article_obj.exists
         => /\ article_obj.id.uuid
            /\ \/ article_obj.id.draw > 0
               \/ article_obj.id.str \in {"uuid-a", "uuid-b"}
    /\ (article_obj.exists /\ ~article_kwargs.id.given)
         => article_obj.id = Uuid4(built)
    /\ (article_obj.exists /\ article_kwargs.id.given)
         => article_obj.id = UuidFrom(article_kwargs.id.v)
    /\ article_kwargs.id = Given("not-a-valid-uuid")
         => (article_error /\ article_obj = NoArticle)

\* The second Article built without an id carries the second generated UUID.
C11_Witness ==
    /\ article_obj.exists
    /\ ~article_kwargs.id.given
    /\ built = 2
    /\ article_obj.id = Uuid4(2)
    /\ article_obj.id.uuid

(***************************************************************************)
(* Claims about the browser drivers, checked under SpecScrape.             *)
(***************************************************************************)
\* C12: every driver a browser scrape call created is quit exactly once
\* before the call returns or raises: between calls no driver is running,
\* no call quits twice, and a call that returned has quit its driver.
C12_DriverQuitOnce ==
    scraper_class \in BrowserClasses
    => /\ pc = "idle" => running = 0
       /\ quits <= 1
       /\ outcome = "returned" => quits = 1

\* C13: a SeleniumFirefoxScraper holds no driver between scrape calls:
\* self.driver is None after construction and after every call, returned or
\* raised, so every call creates its own driver.
C13_NoDriverBetweenCalls ==
    /\ []((scraper_class = "SeleniumFirefoxScraper" /\ pc = "idle")
            => self_driver = "None")
    /\ [][(scraper_class = "SeleniumFirefoxScraper" /\ pc = "create"
             /\ pc' = "get") => FALSE]_vars

(***************************************************************************)
(* The order of the steps for a new article, checked under SpecScripts.    *)
(***************************************************************************)
\* The article of the running iteration was inserted by this run.
C14_NewArticle == inserted_data # PyNone

\* C14: in the Cloudinary run, for an article the lookup did not find, the
\* steps are insert, then image upload, then image update: the upload
\* follows an insert_article that returned a non-empty result, the update
\* follows an upload that returned a URL and targets the id of the row that
\* insert created, and after a failed insert the next operation is the
\* lookup of a later article.
C14_InsertUploadUpdate ==
    [][(script = "cloudinary" /\ last_op' # last_op)
        => /\ (last_op.fn = "lookup" /\ last_op.result = "empty")
                => (last_op'.fn = "insert_article"
                    /\ last_op'.article = last_op.article)
           /\ (last_op'.fn = "upload_image_to_cloudinary"
                /\ last_op.fn # "lookup")
                => /\ last_op.fn = "insert_article"
                   /\ last_op.article = last_op'.article
                   /\ last_op.sdk = "ok"
                   /\ last_op.result # PyNone
                   /\ C14_NewArticle
           /\ (last_op'.fn = "update_article_image_in_supabase")
                => /\ last_op.fn = "upload_image_to_cloudinary"
                   /\ last_op.article = last_op'.article
                   /\ last_op.sdk = "ok"
                   /\ last_op.result # PyNone
                   /\ cloudinary_url = last_op.result
           /\ (last_op'.fn = "update_article_image_in_supabase"
                /\ C14_NewArticle)
                => /\ target_id = IdStr(articles[idx].art.id)
                   /\ \E r \in table :
                         r.id = target_id /\ r.url = ArticleUrl(articles[idx])
           /\ (last_op.fn = "insert_article" /\ last_op.result = PyNone)
                => (last_op'.fn = "lookup"
                    /\ last_op'.article > last_op.article)
      ]_vars

\* A new article was inserted, its image uploaded, and the row the insert
\* created now carries the uploaded image's URL.
C14_Witness ==
    /\ script = "cloudinary"
    /\ C14_NewArticle
    /\ last_op.fn = "update_article_image_in_supabase"
    /\ last_op.sdk = "ok"
    /\ target_id = IdStr(articles[idx].art.id)
    /\ \E r \in table :
          /\ r.id = target_id
          /\ r.url = ArticleUrl(articles[idx])
          /\ r.s3_img = cloudinary_url
          /\ cloudinary_url = CdnUrl("img.jpg")

====
